---- MODULE Spec2Model ----
(***************************************************************************)
(* The trading engine of backend/cpp_engine.                               *)
(*                                                                         *)
(*   Spec       engine.cpp called sequentially: initialize, the admission  *)
(*              gate (validate_trade / execute_trade) with its cooldown,   *)
(*              process_tick, set_cooldown, set_bot_state, get_bot_state.  *)
(*   SpecConc   execute_trade called from two threads at once.             *)
(*   SpecPanic  the decision cycle of the struct interface declared in     *)
(*              engine.hpp, with the drawdown panic stop.                  *)
(*                                                                         *)
(* Time is the steady clock in ticks (TicksPerSec ticks per second), so    *)
(* that duration_cast<seconds> truncates.  Stakes are in hundredths.       *)
(***************************************************************************)
EXTENDS Integers, Sequences, FiniteSets, TLC

VARIABLES
    price_cache,        \* engine.cpp:18  symbol -> last quote
    last_trade_time,    \* engine.cpp:19  clock reading of the last approval
    cooldown_seconds,   \* engine.cpp:20
    is_initialized,     \* engine.cpp:21
    is_running,         \* engine.cpp:22
    start_time,         \* engine.cpp:23
    now,                \* the steady clock (last reading taken)
    call,               \* the last call made on the engine, with its arguments
    ret,                \* what that call returned (or logged)
    approvals,          \* the clock readings of the last two approved trades
    max_open_trades,    \* <<n>>: max_open_trades of the last accepted config
    thr,                \* concurrent callers of execute_trade: their position
    account,            \* engine.hpp:26  the account snapshot
    drawdown_limit,     \* engine.hpp:16  Config.drawdown_limit
    current_drawdown    \* engine.hpp:66  BotState.current_drawdown

vars == <<price_cache, last_trade_time, cooldown_seconds, is_initialized,
          is_running, start_time, now, call, ret, approvals,
          max_open_trades, thr, account, drawdown_limit, current_drawdown>>

\* The state of the struct interface of engine.hpp.
cycle_state == <<account, drawdown_limit, current_drawdown>>

engine == <<price_cache, last_trade_time, cooldown_seconds, is_initialized,
            is_running, start_time>>

----------------------------------------------------------------------------
(* Safety constants and defaults of the source. *)

MAX_ACTIVE_TRADES == 10
MIN_STAKE == 35
MAX_STAKE == 10000
DefaultCooldown == 60

----------------------------------------------------------------------------
(* Bounds of the model. *)

TicksPerSec == 2
MaxFine == 2
MaxJumps == 2

HalfMinute == 30 * TicksPerSec

\* The clock readings explored: the first ticks after construction, then
\* every half minute.
ClockVals == (0..MaxFine) \cup {j * HalfMinute : j \in 1..MaxJumps}

\* Values offered for cooldown_seconds (config field and set_cooldown).
CooldownVals == {-1, 1, 200}

Symbols == {"", "R_100"}
StakeVals == {10, MIN_STAKE, MAX_STAKE, MAX_STAKE + 1}
ActiveTradesVals == {<<>>, <<MAX_ACTIVE_TRADES>>}
Quotes == {1, 2}

----------------------------------------------------------------------------
(* JSON inputs.  A field is <<>> (absent) or <<[kind, val]>>.              *)

Absent == <<>>
IntField(v) == <<[kind |-> "int", val |-> v]>>
BoolField(b) == <<[kind |-> "bool", val |-> b]>>
HalvesField(h) == <<[kind |-> "float", val |-> h]>>   \* the number h/2
StringField == <<[kind |-> "string", val |-> 0]>>
NullField == <<[kind |-> "null", val |-> 0]>>

Configs ==
    {[form |-> "unparseable", cooldown |-> Absent, mot |-> Absent]}
    \cup {[form |-> "object", cooldown |-> Absent, mot |-> m] :
             m \in {Absent, IntField(5)}}
    \cup {[form |-> "object", cooldown |-> IntField(v), mot |-> Absent] :
             v \in CooldownVals}
    \cup {[form |-> "object", cooldown |-> c, mot |-> Absent] :
             c \in {StringField, NullField, BoolField(1), HalvesField(3)}}

\* Every combination of stake, symbol and (absent or full) active_trades,
\* and one request just under the active-trades limit.
OkRequests ==
    [form : {"ok"}, symbol : Symbols, action : {"buy"}, stake : StakeVals,
     active_trades : ActiveTradesVals]
    \cup {[form |-> "ok", symbol |-> "R_100", action |-> "buy",
           stake |-> MIN_STAKE,
           active_trades |-> <<MAX_ACTIVE_TRADES - 1>>]}

\* Requests that make execute_trade throw: no JSON, no JSON and bytes that
\* are not UTF-8, a field missing, a field of the wrong type.
BadRequests ==
    [form : {"unparseable", "invalid_utf8", "missing_field", "wrong_type"},
     symbol : {""}, action : {""}, stake : {0}, active_trades : {<<>>}]

Requests == OkRequests \cup BadRequests

Ticks ==
    [form : {"ok"}, symbol : {"R_100"}, quote : Quotes]
    \cup [form : {"unparseable", "missing_field"}, symbol : {""}, quote : {0}]

----------------------------------------------------------------------------
(* Helpers. *)

\* duration_cast<seconds>: integer division truncating toward zero.
Seconds(d) == IF d >= 0 THEN d \div TicksPerSec ELSE -((-d) \div TicksPerSec)

\* The second clock reading of a call: the same tick or the next one.
LaterReadings(t) == {t2 \in ClockVals : t <= t2 /\ t2 <= t + 1}

\* nlohmann's conversion of a JSON value to int: numbers and booleans
\* convert (a float truncates), anything else throws type_error.
Converts(f) == f.kind \in {"int", "bool", "float"}

ToInt(f) ==
    IF f.kind = "float"
    THEN (IF f.val >= 0 THEN f.val \div 2 ELSE -((-f.val) \div 2))
    ELSE f.val

\* The caller's record of approvals: the latest two, the most recent last.
Approved(t2) ==
    IF approvals = <<>> THEN <<t2>> ELSE <<approvals[Len(approvals)], t2>>

\* params.value("active_trades", 0)
ActiveTrades(req) ==
    IF req.active_trades = <<>> THEN 0 ELSE req.active_trades[1]

----------------------------------------------------------------------------
(* TradingEngine() *)

Threads == {"a", "b"}

Idle == [pc |-> "idle", req |-> <<>>, ret |-> [status |-> "none"]]

Init ==
    /\ price_cache = <<>>
    /\ last_trade_time = 0 - DefaultCooldown * 2 * TicksPerSec
    /\ cooldown_seconds = DefaultCooldown
    /\ is_initialized = FALSE
    /\ is_running = TRUE
    /\ start_time = 0
    /\ now = 0
    /\ call = [op |-> "construct", t |-> 0]
    /\ ret = [status |-> "none"]
    /\ approvals = <<>>
    /\ max_open_trades = <<>>
    /\ thr = [th \in Threads |-> Idle]
    /\ account = [balance |-> 0, equity |-> 1000]
    /\ drawdown_limit = 0
    /\ current_drawdown = 0

----------------------------------------------------------------------------
(* initialize(config_json) *)

InitThrows(cfg) ==
    \/ cfg.form = "unparseable"
    \/ cfg.cooldown # Absent /\ ~Converts(cfg.cooldown[1])

\* Mutant: initialize also restores the running flag to its default.
InitializeRestart(cfg, t) ==
    /\ t \in ClockVals /\ t >= now
    /\ now' = t
    /\ call' = [op |-> "initialize", t |-> t, cfg |-> cfg]
    /\ IF InitThrows(cfg)
       THEN /\ ret' = [status |-> "init_error"]
            /\ UNCHANGED <<cooldown_seconds, is_initialized, max_open_trades,
                           is_running>>
       ELSE /\ cooldown_seconds' =
                 IF cfg.cooldown # Absent THEN ToInt(cfg.cooldown[1])
                 ELSE cooldown_seconds
            /\ is_initialized' = TRUE
            /\ is_running' = TRUE
            /\ max_open_trades' =
                 IF cfg.mot # Absent THEN <<cfg.mot[1].val>> ELSE <<>>
            /\ ret' = [status |-> "initialized",
                       cooldown |-> cooldown_seconds']
    /\ UNCHANGED <<price_cache, last_trade_time, start_time, approvals, thr,
                   cycle_state>>

Initialize(cfg, t) ==
    /\ t \in ClockVals /\ t >= now
    /\ now' = t
    /\ call' = [op |-> "initialize", t |-> t, cfg |-> cfg]
    /\ IF InitThrows(cfg)
       THEN /\ ret' = [status |-> "init_error"]
            /\ UNCHANGED <<cooldown_seconds, is_initialized, max_open_trades>>
       ELSE /\ cooldown_seconds' =
                 IF cfg.cooldown # Absent THEN ToInt(cfg.cooldown[1])
                 ELSE cooldown_seconds
            /\ is_initialized' = TRUE
            /\ max_open_trades' =
                 IF cfg.mot # Absent THEN <<cfg.mot[1].val>> ELSE <<>>
            /\ ret' = [status |-> "initialized",
                       cooldown |-> cooldown_seconds']
    /\ UNCHANGED <<price_cache, last_trade_time, is_running, start_time,
                   approvals, thr, cycle_state>>

----------------------------------------------------------------------------
(* validate_trade(stake, symbol, active_trades) *)

\* Mutant: the elapsed time taken in clock ticks, not whole seconds.
ElapsedTicks(t) == t - last_trade_time

Elapsed(t) == Seconds(t - last_trade_time)

\* Mutant: only a stake that is not positive counts as too low.
StakeNotPositive(stake) == stake <= 0

StakeBelowMin(stake) == stake < MIN_STAKE

StakeAboveMax(stake) == stake > MAX_STAKE

TooManyTrades(active_trades) == active_trades >= MAX_ACTIVE_TRADES

CooldownActive(elapsed) == elapsed < cooldown_seconds

\* Mutant: the remaining wait with its operands exchanged.
CooldownWaitReversed(elapsed) == elapsed - cooldown_seconds

CooldownWait(elapsed) == cooldown_seconds - elapsed

Reject(error) == [valid |-> FALSE, error |-> error, wait |-> 0]

\* Mutant: the symbol is checked before the stake.
validate_trade_symbol_first(stake, symbol, active_trades, t) ==
    IF ~is_initialized THEN Reject("Engine not initialized")
    ELSE IF ~is_running THEN Reject("Bot is stopped")
    ELSE IF symbol = "" THEN Reject("Symbol is empty")
    ELSE IF StakeBelowMin(stake) THEN Reject("Stake below minimum (0.350000)")
    ELSE IF StakeAboveMax(stake) THEN Reject("Stake above maximum (100.000000)")
    ELSE IF TooManyTrades(active_trades)
         THEN Reject("Max active trades limit reached")
    ELSE IF CooldownActive(Elapsed(t))
         THEN [valid |-> FALSE, error |-> "Cooldown active. Wait",
               wait |-> CooldownWait(Elapsed(t))]
    ELSE [valid |-> TRUE, error |-> "OK", wait |-> 0]

validate_trade(stake, symbol, active_trades, t) ==
    IF ~is_initialized THEN Reject("Engine not initialized")
    ELSE IF ~is_running THEN Reject("Bot is stopped")
    ELSE IF StakeBelowMin(stake) THEN Reject("Stake below minimum (0.350000)")
    ELSE IF StakeAboveMax(stake) THEN Reject("Stake above maximum (100.000000)")
    ELSE IF symbol = "" THEN Reject("Symbol is empty")
    ELSE IF TooManyTrades(active_trades)
         THEN Reject("Max active trades limit reached")
    ELSE IF CooldownActive(Elapsed(t))
         THEN [valid |-> FALSE, error |-> "Cooldown active. Wait",
               wait |-> CooldownWait(Elapsed(t))]
    ELSE [valid |-> TRUE, error |-> "OK", wait |-> 0]

----------------------------------------------------------------------------
(* execute_trade(params_json) *)

\* The catch block: e.what() quotes the bytes last read, and dump() of a
\* string that is not UTF-8 throws type_error 316, which nothing catches.
ErrorResult(req) ==
    IF req.form = "invalid_utf8"
    THEN [status |-> "exception", message |-> "type_error.316"]
    ELSE [status |-> "error", message |-> req.form]

\* Mutant: the approval keeps the old last_trade_time.
TradeStampStale(t2) == last_trade_time

\* last_trade_time = steady_clock::now()
TradeStamp(t2) == t2

\* Mutant: a rejected request restarts the cooldown.
ExecuteTradeRestarting(req, t) ==
    /\ t \in ClockVals /\ t >= now
    /\ call' = [op |-> "execute_trade", t |-> t, req |-> req]
    /\ IF req.form # "ok"
       THEN /\ ret' = ErrorResult(req)
            /\ now' = t
            /\ UNCHANGED <<last_trade_time, approvals>>
       ELSE LET val == validate_trade(req.stake, req.symbol,
                                      ActiveTrades(req), t)
            IN  IF ~val.valid
                THEN /\ ret' = [status |-> "rejected", reason |-> val.error,
                                wait |-> val.wait]
                     /\ now' = t
                     /\ last_trade_time' = t
                     /\ UNCHANGED approvals
                ELSE \E t2 \in LaterReadings(t) :
                     /\ last_trade_time' = TradeStamp(t2)
                     /\ now' = t2
                     /\ approvals' = Approved(t2)
                     /\ ret' = [status |-> "approved", symbol |-> req.symbol,
                                action |-> req.action, stake |-> req.stake]
    /\ UNCHANGED <<price_cache, cooldown_seconds, is_initialized, is_running,
                   start_time, max_open_trades, thr, cycle_state>>

ExecuteTrade(req, t) ==
    /\ t \in ClockVals /\ t >= now
    /\ call' = [op |-> "execute_trade", t |-> t, req |-> req]
    /\ IF req.form # "ok"
       THEN /\ ret' = ErrorResult(req)
            /\ now' = t
            /\ UNCHANGED <<last_trade_time, approvals>>
       ELSE LET val == validate_trade(req.stake, req.symbol,
                                      ActiveTrades(req), t)
            IN  IF ~val.valid
                THEN /\ ret' = [status |-> "rejected", reason |-> val.error,
                                wait |-> val.wait]
                     /\ now' = t
                     /\ UNCHANGED <<last_trade_time, approvals>>
                ELSE \E t2 \in LaterReadings(t) :
                     /\ last_trade_time' = TradeStamp(t2)
                     /\ now' = t2
                     /\ approvals' = Approved(t2)
                     /\ ret' = [status |-> "approved", symbol |-> req.symbol,
                                action |-> req.action, stake |-> req.stake]
    /\ UNCHANGED <<price_cache, cooldown_seconds, is_initialized, is_running,
                   start_time, max_open_trades, thr, cycle_state>>

----------------------------------------------------------------------------
(* process_tick(tick_json) *)

\* Mutant: a tick counts as activity and restarts the cooldown.
ProcessTickRestarting(tick, t) ==
    /\ t \in ClockVals /\ t >= now
    /\ now' = t
    /\ call' = [op |-> "process_tick", t |-> t, tick |-> tick]
    /\ IF tick.form # "ok"
       THEN /\ ret' = [status |-> "error", message |-> tick.form]
            /\ UNCHANGED <<price_cache, last_trade_time>>
       ELSE /\ price_cache' =
                 [s \in DOMAIN price_cache \cup {tick.symbol} |->
                     IF s = tick.symbol THEN tick.quote ELSE price_cache[s]]
            /\ last_trade_time' = t
            /\ ret' = [status |-> "tick", symbol |-> tick.symbol,
                       price |-> tick.quote]
    /\ UNCHANGED <<cooldown_seconds, is_initialized, is_running, start_time,
                   approvals, max_open_trades, thr, cycle_state>>

ProcessTick(tick, t) ==
    /\ t \in ClockVals /\ t >= now
    /\ now' = t
    /\ call' = [op |-> "process_tick", t |-> t, tick |-> tick]
    /\ IF tick.form # "ok"
       THEN /\ ret' = [status |-> "error", message |-> tick.form]
            /\ UNCHANGED price_cache
       ELSE /\ price_cache' =
                 [s \in DOMAIN price_cache \cup {tick.symbol} |->
                     IF s = tick.symbol THEN tick.quote ELSE price_cache[s]]
            /\ ret' = [status |-> "tick", symbol |-> tick.symbol,
                       price |-> tick.quote]
    /\ UNCHANGED <<last_trade_time, cooldown_seconds, is_initialized,
                   is_running, start_time, approvals, max_open_trades, thr,
                   cycle_state>>

----------------------------------------------------------------------------
(* set_cooldown(seconds), set_bot_state(state), get_bot_state() *)

SetCooldown(seconds, t) ==
    /\ t \in ClockVals /\ t >= now
    /\ now' = t
    /\ call' = [op |-> "set_cooldown", t |-> t, seconds |-> seconds]
    /\ cooldown_seconds' = seconds
    /\ ret' = [status |-> "void"]
    /\ UNCHANGED <<price_cache, last_trade_time, is_initialized, is_running,
                   start_time, approvals, max_open_trades, thr, cycle_state>>

SetBotState(state, t) ==
    /\ t \in ClockVals /\ t >= now
    /\ now' = t
    /\ call' = [op |-> "set_bot_state", t |-> t, state |-> state]
    /\ is_running' = state
    /\ ret' = [status |-> "void"]
    /\ UNCHANGED <<price_cache, last_trade_time, cooldown_seconds,
                   is_initialized, start_time, approvals, max_open_trades, thr,
                   cycle_state>>

\* What the caller still holds when it calls get_bot_state right after
\* another get_bot_state: that call's result.
Previous == IF call.op = "get_bot_state" THEN <<ret>> ELSE <<>>

\* Mutant: get_bot_state restarts the uptime clock.
GetBotStateRestarting(t) ==
    /\ t \in ClockVals /\ t >= now
    /\ now' = t
    /\ call' = [op |-> "get_bot_state", t |-> t, prev |-> Previous]
    /\ ret' = [status |-> "state", is_running |-> is_running,
               uptime_seconds |-> Seconds(t - start_time)]
    /\ start_time' = t
    /\ UNCHANGED <<price_cache, last_trade_time, cooldown_seconds,
                   is_initialized, is_running, approvals, max_open_trades,
                   thr, cycle_state>>

GetBotState(t) ==
    /\ t \in ClockVals /\ t >= now
    /\ now' = t
    /\ call' = [op |-> "get_bot_state", t |-> t, prev |-> Previous]
    /\ ret' = [status |-> "state", is_running |-> is_running,
               uptime_seconds |-> Seconds(t - start_time)]
    /\ UNCHANGED <<engine, approvals, max_open_trades, thr, cycle_state>>

----------------------------------------------------------------------------

Next ==
    \/ \E cfg \in Configs, t \in ClockVals : Initialize(cfg, t)
    \/ \E req \in Requests, t \in ClockVals : ExecuteTrade(req, t)
    \/ \E tick \in Ticks, t \in ClockVals : ProcessTick(tick, t)
    \/ \E s \in CooldownVals, t \in ClockVals : SetCooldown(s, t)
    \/ \E b \in BOOLEAN, t \in ClockVals : SetBotState(b, t)
    \/ \E t \in ClockVals : GetBotState(t)

Spec == Init /\ [][Next]_vars

----------------------------------------------------------------------------
(* execute_trade called from two threads at once.  The engine holds no     *)
(* lock: the reads of validate_trade (lines 55-77) and the write of        *)
(* last_trade_time (line 129) are separate steps, and a read that races    *)
(* with the write sees the old or the new value.                           *)

ConcRequests ==
    {r \in Requests :
        \/ r.form = "unparseable"
        \/ /\ r.form = "ok" /\ r.symbol = "R_100" /\ r.active_trades = <<>>
           /\ r.stake \in {10, MIN_STAKE}}

ConcConfigs ==
    {c \in Configs :
        /\ c.form = "object" /\ c.mot = Absent
        /\ c.cooldown \in {Absent, IntField(1)}}

\* Lines 111-116: parse the parameters.
Begin(th, req) ==
    /\ thr[th].pc \in {"idle", "done"}
    /\ thr' = [thr EXCEPT ![th] =
                 IF req.form # "ok"
                 THEN [pc |-> "done", req |-> req, ret |-> ErrorResult(req)]
                 ELSE [pc |-> "validate", req |-> req,
                       ret |-> [status |-> "none"]]]
    /\ UNCHANGED <<engine, now, call, ret, approvals, max_open_trades,
                   cycle_state>>

\* Lines 119-126: validate_trade, and the rejected result.
Validate(th) ==
    /\ thr[th].pc = "validate"
    /\ LET req == thr[th].req
           val == validate_trade(req.stake, req.symbol, ActiveTrades(req),
                                 now)
       IN  thr' = [thr EXCEPT ![th] =
                 IF ~val.valid
                 THEN [pc |-> "done", req |-> req,
                       ret |-> [status |-> "rejected", reason |-> val.error,
                                wait |-> val.wait]]
                 ELSE [pc |-> "stamp", req |-> req,
                       ret |-> [status |-> "valid", checked |-> now,
                                cooldown |-> cooldown_seconds]]]
    /\ UNCHANGED <<engine, now, call, ret, approvals, max_open_trades,
                   cycle_state>>

\* Lines 129-137: record last_trade_time, and the approved result.
Stamp(th) ==
    /\ thr[th].pc = "stamp"
    /\ last_trade_time' = now
    /\ thr' = [thr EXCEPT ![th] =
                 [pc |-> "done", req |-> thr[th].req,
                  ret |-> [status |-> "approved", at |-> now,
                           checked |-> thr[th].ret.checked,
                           cooldown |-> thr[th].ret.cooldown]]]
    /\ UNCHANGED <<price_cache, cooldown_seconds, is_initialized, is_running,
                   start_time, now, call, ret, approvals, max_open_trades,
                   cycle_state>>

\* The steady clock moves on.
ClockTick(t) ==
    /\ t \in ClockVals /\ t > now
    /\ now' = t
    /\ UNCHANGED <<engine, call, ret, approvals, max_open_trades, thr,
                   cycle_state>>

NextConc ==
    \/ \E th \in Threads, req \in ConcRequests : Begin(th, req)
    \/ \E th \in Threads : Validate(th)
    \/ \E th \in Threads : Stamp(th)
    \/ \E t \in ClockVals : ClockTick(t)
    \/ \E cfg \in ConcConfigs : Initialize(cfg, now)

SpecConc == Init /\ [][NextConc]_vars

\* C2: of two concurrent execute_trade calls, at most one is approved
\* within a cooldown window: when both are approved, the later approval is
\* at least its cooldown_seconds (> 0) after the earlier one.
OneApprovalPerWindow ==
    \A a \in Threads, b \in Threads :
        (/\ a # b
         /\ thr[a].ret.status = "approved" /\ thr[b].ret.status = "approved"
         /\ thr[a].ret.at <= thr[b].ret.at
         /\ thr[b].ret.cooldown > 0)
            => Seconds(thr[b].ret.at - thr[a].ret.at) >= thr[b].ret.cooldown

----------------------------------------------------------------------------
(* The struct interface declared in engine.hpp (init_engine,               *)
(* update_config, update_account, process_tick, set_bot_state): one        *)
(* decision cycle with the drawdown panic stop, the exposure limit and     *)
(* the grid signal.  Prices are in tenths.                                 *)

ACTION_NONE == 0
ACTION_BUY == 1
ACTION_SELL == 2
ACTION_PANIC == 5

Balances == {0, 1000}
Equities == {800, 900, 1000}
DrawdownLimits == {0, 15}
OpenTradeLimits == {1, 2}
Mids == {200, 203, 206}
PositionSets == {<<>>, <<205>>, <<900>>, <<900, 901>>}

ConfiguredMax ==
    IF max_open_trades = <<>> THEN MAX_ACTIVE_TRADES ELSE max_open_trades[1]

InitEngine(limit, mot) ==
    /\ call' = [op |-> "init_engine", t |-> now]
    /\ ret' = [status |-> "void"]
    /\ is_running' = FALSE
    /\ drawdown_limit' = limit
    /\ max_open_trades' = <<mot>>
    /\ current_drawdown' = 0
    /\ UNCHANGED <<price_cache, last_trade_time, cooldown_seconds,
                   is_initialized, start_time, now, approvals, thr, account>>

UpdateConfig(limit, mot) ==
    /\ call' = [op |-> "update_config", t |-> now]
    /\ ret' = [status |-> "void"]
    /\ drawdown_limit' = limit
    /\ max_open_trades' = <<mot>>
    /\ UNCHANGED <<engine, now, approvals, thr, account, current_drawdown>>

UpdateAccount(balance, equity) ==
    /\ call' = [op |-> "update_account", t |-> now]
    /\ ret' = [status |-> "void"]
    /\ account' = [balance |-> balance, equity |-> equity]
    /\ UNCHANGED <<engine, now, approvals, max_open_trades, thr,
                   drawdown_limit, current_drawdown>>

ReferenceBalance(acc) == IF acc.balance > 0 THEN acc.balance ELSE acc.equity

\* The drawdown in percent of the reference balance.
Drawdown(acc) ==
    ((ReferenceBalance(acc) - acc.equity) * 100) \div ReferenceBalance(acc)

PanicTriggered(dd) == drawdown_limit > 0 /\ dd >= drawdown_limit

ExposureReached(positions) == Len(positions) >= ConfiguredMax

Abs(x) == IF x >= 0 THEN x ELSE -x

\* The grid signal for grid_size 10: the mid price within 5% of a grid line,
\* no open position within half a grid of it.
GridSignal(mid, positions) ==
    LET grid == 100
        dist == mid - (mid \div grid) * grid
        tolerance == (grid * 5) \div 100
    IN  IF Abs(dist) >= tolerance THEN ACTION_NONE
        ELSE IF \E i \in 1..Len(positions) :
                    2 * Abs(positions[i] - mid) < grid
             THEN ACTION_NONE
        ELSE IF dist > 0 THEN ACTION_SELL
        ELSE ACTION_BUY

\* Mutant: the exposure limit is checked before the drawdown.
CycleDecisionExposureFirst(dd, mid, positions) ==
    IF ExposureReached(positions) THEN ACTION_NONE
    ELSE IF PanicTriggered(dd) THEN ACTION_PANIC
    ELSE GridSignal(mid, positions)

\* The decision of one cycle of a running engine.
CycleDecision(dd, mid, positions) ==
    IF PanicTriggered(dd) THEN ACTION_PANIC
    ELSE IF ExposureReached(positions) THEN ACTION_NONE
    ELSE GridSignal(mid, positions)

Cycle(mid, positions) ==
    /\ call' = [op |-> "cycle", t |-> now, mid |-> mid,
                positions |-> positions]
    /\ current_drawdown' = Drawdown(account)
    /\ IF ~is_running
       THEN /\ ret' = [status |-> "signal", action |-> ACTION_NONE]
            /\ UNCHANGED is_running
       ELSE LET action == CycleDecision(Drawdown(account), mid, positions)
            IN  /\ ret' = [status |-> "signal", action |-> action]
                /\ is_running' = (action # ACTION_PANIC)
    /\ UNCHANGED <<price_cache, last_trade_time, cooldown_seconds,
                   is_initialized, start_time, now, approvals,
                   max_open_trades, thr, account, drawdown_limit>>

NextPanic ==
    \/ \E l \in DrawdownLimits, m \in OpenTradeLimits : InitEngine(l, m)
    \/ \E l \in DrawdownLimits, m \in OpenTradeLimits : UpdateConfig(l, m)
    \/ \E b \in Balances, e \in Equities : UpdateAccount(b, e)
    \/ \E b \in BOOLEAN : SetBotState(b, now)
    \/ \E m \in Mids, p \in PositionSets : Cycle(m, p)

SpecPanic == Init /\ [][NextPanic]_vars

----------------------------------------------------------------------------
(* Properties of the sequential engine (Spec).                             *)

IsTrade(c) == c.op = "execute_trade" /\ c.req.form = "ok"

LastApproval == approvals[Len(approvals)]

\* C1: whenever execute_trade returns "approved", the whole seconds elapsed
\* since the previous approved execute_trade are at least the
\* cooldown_seconds in force at the later approval.
CooldownSafety ==
    (IsTrade(call) /\ ret.status = "approved" /\ Len(approvals) = 2)
        => Seconds(call.t - approvals[1]) >= cooldown_seconds

\* A second approval under a positive cooldown, a whole cooldown after the
\* first.
CooldownSafetyWitness ==
    /\ IsTrade(call) /\ ret.status = "approved" /\ Len(approvals) = 2
    /\ cooldown_seconds = DefaultCooldown
    /\ Seconds(call.t - approvals[1]) = DefaultCooldown

\* C3 as stated: a well-formed request is approved iff the engine is
\* initialized, the bot is running, the stake is within bounds, the symbol
\* is non-empty, the active trade count is below the configured
\* max_open_trades and the cooldown has elapsed.
AdmissionConfigured ==
    [][IsTrade(call') =>
        (ret'.status = "approved" <=>
            /\ is_initialized
            /\ is_running
            /\ MIN_STAKE <= call'.req.stake /\ call'.req.stake <= MAX_STAKE
            /\ call'.req.symbol # ""
            /\ ActiveTrades(call'.req) < ConfiguredMax
            /\ Seconds(call'.t - last_trade_time) >= cooldown_seconds)]_vars

\* The decision the code takes: the same, with the active trade count
\* compared to the fixed MAX_ACTIVE_TRADES, whatever was configured.
AdmissionFixedLimit ==
    [][IsTrade(call') =>
        (ret'.status = "approved" <=>
            /\ is_initialized
            /\ is_running
            /\ MIN_STAKE <= call'.req.stake /\ call'.req.stake <= MAX_STAKE
            /\ call'.req.symbol # ""
            /\ ActiveTrades(call'.req) < MAX_ACTIVE_TRADES
            /\ Seconds(call'.t - last_trade_time) >= cooldown_seconds)]_vars

\* An approval with more active trades than the configured max_open_trades.
AdmissionOverLimit ==
    /\ IsTrade(call) /\ ret.status = "approved"
    /\ max_open_trades # <<>>
    /\ ActiveTrades(call.req) >= max_open_trades[1]

\* The admission checks in their fixed order, each with its reason.
Reasons ==
    <<"Engine not initialized", "Bot is stopped",
      "Stake below minimum (0.350000)", "Stake above maximum (100.000000)",
      "Symbol is empty", "Max active trades limit reached",
      "Cooldown active. Wait">>

\* Whether check i fails for request r made at clock reading t.
Fails(i, r, t) ==
    CASE i = 1 -> ~is_initialized
      [] i = 2 -> ~is_running
      [] i = 3 -> r.stake < MIN_STAKE
      [] i = 4 -> r.stake > MAX_STAKE
      [] i = 5 -> r.symbol = ""
      [] i = 6 -> ActiveTrades(r) >= MAX_ACTIVE_TRADES
      [] i = 7 -> Seconds(t - last_trade_time) < cooldown_seconds

\* C4: the reason of a rejection is that of the first failing check in the
\* order not-initialized, bot-stopped, stake-below-minimum,
\* stake-above-maximum, empty-symbol, max-active-trades, cooldown-active.
RejectionPriority ==
    [][(IsTrade(call') /\ ret'.status = "rejected") =>
        \E i \in 1..7 :
            /\ Fails(i, call'.req, call'.t)
            /\ \A j \in 1..(i - 1) : ~Fails(j, call'.req, call'.t)
            /\ ret'.reason = Reasons[i]]_vars

\* A request failing the stake, symbol, active-trades and cooldown checks
\* at once is rejected for its stake.
RejectionPriorityWitness ==
    /\ IsTrade(call) /\ ret.status = "rejected"
    /\ ret.reason = Reasons[4]
    /\ call.req.symbol = ""
    /\ ActiveTrades(call.req) >= MAX_ACTIVE_TRADES
    /\ Seconds(call.t - last_trade_time) < cooldown_seconds

\* C5 as stated: a stake below MIN_STAKE is rejected with the below-minimum
\* reason in every engine state.
BelowMinimumAlways ==
    (IsTrade(call) /\ call.req.stake < MIN_STAKE)
        => (ret.status = "rejected" /\ ret.reason = Reasons[3])

\* C5 amended: a stake below MIN_STAKE is always rejected, and with the
\* below-minimum reason whenever the engine is initialized and running.
BelowMinimumRejected ==
    (IsTrade(call) /\ call.req.stake < MIN_STAKE)
        => /\ ret.status = "rejected"
           /\ (is_initialized /\ is_running) => ret.reason = Reasons[3]

\* A low stake rejected for its stake although the symbol is empty, the
\* active trades are at the limit and the cooldown is active.
BelowMinimumWitness ==
    /\ IsTrade(call) /\ call.req.stake < MIN_STAKE
    /\ is_initialized /\ is_running
    /\ ret.status = "rejected" /\ ret.reason = Reasons[3]
    /\ call.req.symbol = ""
    /\ ActiveTrades(call.req) >= MAX_ACTIVE_TRADES
    /\ Seconds(call.t - last_trade_time) < cooldown_seconds

\* A request that passes every check but the cooldown.
OtherwiseValid(r) ==
    /\ is_initialized /\ is_running
    /\ MIN_STAKE <= r.stake /\ r.stake <= MAX_STAKE
    /\ r.symbol # ""
    /\ ActiveTrades(r) < MAX_ACTIVE_TRADES

\* C6: after an approval at t0, an otherwise-valid request d whole seconds
\* later is rejected citing cooldown_seconds - d when d < cooldown_seconds,
\* and approved when d >= cooldown_seconds.
CooldownTiming ==
    [][(IsTrade(call') /\ OtherwiseValid(call'.req) /\ approvals # <<>>) =>
        LET d == Seconds(call'.t - LastApproval)
        IN  IF d < cooldown_seconds
            THEN /\ ret'.status = "rejected"
                 /\ ret'.reason = Reasons[7]
                 /\ ret'.wait = cooldown_seconds - d
            ELSE ret'.status = "approved"]_vars

\* Thirty seconds after an approval under a cooldown of 60: rejected,
\* citing 30 seconds.
CooldownTimingWitness ==
    /\ IsTrade(call) /\ approvals # <<>>
    /\ cooldown_seconds = 60
    /\ Seconds(call.t - LastApproval) = 30
    /\ ret.status = "rejected" /\ ret.reason = Reasons[7] /\ ret.wait = 30

\* Sixty seconds after an approval under a cooldown of 60: approved.
CooldownExpiredWitness ==
    /\ IsTrade(call) /\ Len(approvals) = 2
    /\ cooldown_seconds = 60
    /\ ret.status = "approved"
    /\ Seconds(call.t - approvals[1]) = 60

\* C7: initialize leaves the engine stopped and resets the timestamps: the
\* uptime start is the time of the call and the last trade lies at least a
\* cooldown in the past.
InitializeResets ==
    (call.op = "initialize" /\ ret.status = "initialized")
        => /\ ~is_running
           /\ start_time = call.t
           /\ Seconds(call.t - last_trade_time) >= cooldown_seconds

Malformed(cfg) ==
    \/ cfg.form = "unparseable"
    \/ cfg.cooldown # Absent /\ cfg.cooldown[1].kind # "int"

\* C10: an initialize with a malformed config leaves cooldown_seconds and
\* the initialized flag as they were and reports failure.
MalformedConfigRetained ==
    [][(call'.op = "initialize" /\ Malformed(call'.cfg)) =>
        /\ cooldown_seconds' = cooldown_seconds
        /\ is_initialized' = is_initialized
        /\ ret'.status = "init_error"]_vars

\* C11: every execute_trade call returns one of the three typed results,
\* approved (with symbol, action, stake), rejected (with a reason) or error
\* (with a message); no exception escapes.
TypedResult ==
    call.op = "execute_trade" =>
        \/ ret.status = "approved"
           /\ DOMAIN ret = {"status", "symbol", "action", "stake"}
        \/ ret.status = "rejected" /\ "reason" \in DOMAIN ret
        \/ ret.status = "error" /\ "message" \in DOMAIN ret

\* C12: get_bot_state changes no engine state, and of two consecutive
\* get_bot_state calls the second reports an uptime_seconds that is not
\* smaller and the same is_running.
ConsecutiveStates ==
    [][call'.op = "get_bot_state" =>
        /\ engine' = engine
        /\ call.op = "get_bot_state" =>
              /\ ret'.uptime_seconds >= ret.uptime_seconds
              /\ ret'.is_running = ret.is_running]_vars

\* Two consecutive calls half a minute apart: the uptime has grown.
ConsecutiveStatesWitness ==
    /\ call.op = "get_bot_state" /\ call.prev # <<>>
    /\ ret.uptime_seconds >= call.prev[1].uptime_seconds + 30
    /\ ret.is_running = call.prev[1].is_running

\* C14: while the bot is stopped, successive get_bot_state calls report
\* the same uptime_seconds although the clock advances.
UptimeFrozenWhileStopped ==
    (call.op = "get_bot_state" /\ call.prev # <<>> /\ ~is_running)
        => ret.uptime_seconds = call.prev[1].uptime_seconds

\* C13: an approved execute_trade records last_trade_time = now, the clock
\* reading of the approval, and changes nothing else of the engine.
ApprovalFrame ==
    [][(IsTrade(call') /\ ret'.status = "approved") =>
        /\ last_trade_time' = now'
        /\ last_trade_time' >= call'.t
        /\ UNCHANGED <<price_cache, cooldown_seconds, is_initialized,
                       is_running, start_time>>]_vars

\* An approval stamped with the second clock reading of the call, on an
\* engine that holds a price.
ApprovalFrameWitness ==
    /\ IsTrade(call) /\ ret.status = "approved"
    /\ last_trade_time = now /\ now > call.t
    /\ price_cache # <<>>

\* C15: before any approval, an otherwise-valid execute_trade is never
\* rejected for cooldown, whatever cooldown_seconds was configured.
FirstTradeImmediate ==
    (IsTrade(call) /\ approvals = <<>> /\ ret.status = "rejected")
        => ret.reason # Reasons[7]

\* C16: cooldown_seconds is never negative.
CooldownNonNegative == cooldown_seconds >= 0

\* C17: an execute_trade that is not approved (rejected, or in error)
\* leaves the whole engine state as it was.
RejectionFrame ==
    [][(call'.op = "execute_trade" /\ ret'.status # "approved") =>
        engine' = engine]_vars

\* A rejection inside a cooldown window that began earlier: the window has
\* neither restarted nor grown.
RejectionFrameWitness ==
    /\ IsTrade(call) /\ ret.status = "rejected" /\ ret.reason = Reasons[7]
    /\ approvals # <<>> /\ last_trade_time = LastApproval
    /\ ret.wait < cooldown_seconds

\* C18: process_tick changes nothing but the price cache, and every request
\* is decided at the time of the tick as it would have been without it.
TickFrame ==
    [][call'.op = "process_tick" =>
        /\ UNCHANGED <<last_trade_time, cooldown_seconds, is_initialized,
                       is_running, start_time>>
        /\ \A r \in OkRequests, t \in {call'.t} :
              validate_trade(r.stake, r.symbol, ActiveTrades(r), t)'
                  = validate_trade(r.stake, r.symbol, ActiveTrades(r), t)]_vars

\* A tick stored in the price cache during a cooldown window.
TickFrameWitness ==
    /\ call.op = "process_tick" /\ ret.status = "tick"
    /\ price_cache[call.tick.symbol] = call.tick.quote
    /\ approvals # <<>> /\ last_trade_time = LastApproval
    /\ Seconds(call.t - last_trade_time) < cooldown_seconds

====
